---- MODULE Spec2Model ----
(***************************************************************************)
(* Playback state and control-panel callbacks of the Quran audio bot       *)
(* (src/src/cogs/user_commands/control_panel.py).                          *)
(*                                                                         *)
(* Every interaction (a button press or a select) is a coroutine; the      *)
(* model gives it a slot p and a position pc[p].  One action is one        *)
(* stretch of a callback between two awaits that really suspend, so the    *)
(* interleavings the model explores are those of the asyncio event loop.   *)
(***************************************************************************)
EXTENDS Integers, Sequences, FiniteSets, TLC

\* ---------------------------------------------------------------- bounds
\* number of surahs of the catalog in the model (114 in the program)
NumSurahs == 3
\* number of navigation interactions of a behaviour of Spec
MaxPresses == 2
\* number of Next presses of a behaviour of SpecRapid
RapidPresses == 3
\* options of one page of the surah select (10 in the program)
SurahsPerPage == 2
\* number of /verse invocations of a behaviour of SpecVerse
MaxVerseRuns == 2
\* hours the clock of SpecVerse runs
MaxClock == 4
\* next_auto_time = current_time + timedelta(hours=3)
VerseInterval == 3

\* ------------------------------------------------------------- constants
Users == {1, 2}
NoUser == 0
NoIndex == -1
Procs == 1..(IF MaxPresses > RapidPresses THEN MaxPresses ELSE RapidPresses)
Reciters == {"A", "B"}
\* values a reciter select may carry; "X" is a reciter the bot does not know
ReciterChoices == Reciters \cup {"X"}
Kinds == {"next", "prev", "surah", "reciter", "search"}
\* callbacks behind log_button_interaction / log_select_interaction
WrappedKinds == Kinds \ {"search"}
\* numbers a user may type into the search modal
SearchInputs == 0..(NumSurahs + 1)
NoSurah == -1
NoActivity == [action |-> "none", user |-> NoUser]
NoTarget == [idx |-> NoIndex, rec |-> "none"]
\* no /verse invocation is running
NoVerseInput == [user |-> NoUser, DEVELOPER_ID |-> 0, manager |-> FALSE,
                 verse_pool |-> FALSE, verse |-> FALSE, channel |-> "unset",
                 at |-> 0]
\* an entry of surahs.json: complete, lacking a required field, or with a
\* revelation_type that RevelationType does not know
EntryKinds == {"valid", "missing_fields", "bad_value"}
\* surahs.json: absent, no JSON, not readable, a JSON value that is no
\* object, or an object with entries for the keys "1", "2", ...
FileKinds == {"missing", "invalid_json", "permission_denied", "not_object",
              "object"}
SurahFile(k, es) == [kind |-> k, entries |-> es]
EntryLists ==
    UNION {[1..n -> EntryKinds] : n \in 0..NumSurahs}
SurahFiles ==
    {SurahFile(k, << >>) : k \in FileKinds \ {"object"}}
      \cup {SurahFile("object", es) : es \in EntryLists}
CompleteFile == SurahFile("object", [i \in 1..NumSurahs |-> "valid"])
Loaded(exc, db) == [called |-> TRUE, raised |-> exc, database |-> db]
NotLoaded == [called |-> FALSE, raised |-> "none", database |-> {}]
\* values of the DEVELOPER_ID environment variable; 0 stands for unset
DeveloperIds == {0, 1}
\* DAILY_VERSE_CHANNEL_ID is unset, names no channel, or names a channel
Channels == {"unset", "missing", "found"}
Target(i, r) == [idx |-> i, rec |-> r]
\* interaction.user.id of the interaction in slot p
UserOf(p) == IF p % 2 = 1 THEN 1 ELSE 2

VARIABLES
    current_index,      \* state_manager current_song_index (NoIndex = None)
    current_reciter,    \* bot.current_reciter
    loop_enabled,       \* bot.loop_enabled
    loop_owner,         \* config loop user (NoUser = None)
    shuffle_enabled,    \* bot.shuffle_enabled
    shuffle_owner,      \* config shuffle user
    last_activity,      \* BotConfig last activity
    is_streaming,       \* bot.is_streaming
    voice_connected,    \* some guild.voice_client exists and is_connected()
    pc,                 \* position of each interaction coroutine
    kind,               \* which callback the interaction runs
    bot_state_before,   \* current_song_index read by the logging wrapper
    found_surah,        \* surah_number of the SearchResultView of the slot
    target,             \* position the callback wrote, while its restart runs
    sent,               \* messages the interaction has produced
    stream,             \* play_quran_files task created by each interaction
    panel,              \* what the embed of the panel message shows
    current_page,       \* ControlPanelView.current_page
    last_response,      \* last answer of a control that starts no restart
    nav_log,            \* interactions whose navigation was accepted, in order
    rapid,              \* every accepted request found all earlier ones in flight
    expected_index,     \* the accepted requests applied one after the other
    expected_reciter,
    loop_presses,       \* users of the Loop presses since loop was last off
    verse_pc,           \* position of the /verse command coroutine
    verse_in,           \* what the running /verse invocation finds
    verse_saved,        \* daily_verses_manager.save_state() was called
    verse_delivered,    \* the verse embed reached the daily-verse channel
    verse_responses,    \* answers the invoking user got, in order
    verse_runs,         \* /verse invocations so far
    now,                \* the clock, in hours
    timer_start,        \* when the automatic-verse interval last started
    surah_file,         \* what surahs.json is on disk
    load_result,        \* outcome of the last load_surah_database()
    reply_cb,           \* the callback that handles the interaction
    reply_pc,           \* how far the callback has got with its answers
    response_done,      \* interaction.response.is_done()
    reply_calls,        \* the sends the callback has made, in order
    reply_runs,         \* interactions handled so far
    user_sessions,      \* DiscordEmbedLogger.user_sessions
    sessions_file,      \* what data/user_vc_sessions.json holds
    sess_last,          \* the last operation of the logger and how it ended
    panel_channel_cleared_once,  \* the module-level flag
    setup_pc,           \* position of each setup's create_panel
    to_delete,          \* messages each clear has still to delete
    channel_messages,   \* messages in the panel channel
    clears,             \* clears of the channel that were begun
    panels_deleted,     \* panel messages a clear has deleted
    surah_names,        \* len(get_surah_names())
    surah_options,      \* option values of the surah select of the panel
    info_result         \* the last call of get_surah_info and its outcome

pstate == <<current_index, current_reciter, loop_enabled, loop_owner,
            shuffle_enabled, shuffle_owner, last_activity>>
procvars == <<pc, kind, bot_state_before, found_surah, target, sent>>
navghost == <<nav_log, rapid, expected_index, expected_reciter>>
ghost == <<nav_log, rapid, expected_index, expected_reciter, loop_presses>>
local == <<current_page, last_response>>
versevars == <<verse_pc, verse_in, verse_saved, verse_delivered,
               verse_responses, verse_runs, now, timer_start>>
mappervars == <<surah_file, load_result>>
replyvars == <<reply_cb, reply_pc, response_done, reply_calls, reply_runs>>
sessvars == <<user_sessions, sessions_file, sess_last>>
setupvars == <<panel_channel_cleared_once, setup_pc, to_delete,
               channel_messages, clears, panels_deleted>>
pagevars == <<surah_names, surah_options>>
infovars == <<info_result>>
extras == <<replyvars, sessvars, setupvars, pagevars, infovars>>
besides_reply == <<sessvars, setupvars, pagevars, infovars>>
besides_sess == <<replyvars, setupvars, pagevars, infovars>>
besides_setup == <<replyvars, sessvars, pagevars, infovars>>
besides_page == <<replyvars, sessvars, setupvars, infovars>>
besides_info == <<replyvars, sessvars, setupvars, pagevars>>
others == <<local, versevars, mappervars, extras>>
playback == <<pstate, is_streaming, voice_connected, procvars, stream, panel,
              ghost, local>>
program == <<playback, versevars, mappervars>>
vars == <<current_index, current_reciter, loop_enabled, loop_owner,
          shuffle_enabled, shuffle_owner, last_activity, is_streaming,
          voice_connected, pc, kind, bot_state_before, found_surah, target,
          sent, stream, panel, current_page, last_response, nav_log, rapid,
          expected_index, expected_reciter, loop_presses, verse_pc,
          verse_in, verse_saved, verse_delivered, verse_responses,
          verse_runs, now, timer_start, surah_file, load_result, reply_cb,
          reply_pc, response_done, reply_calls, reply_runs, user_sessions,
          sessions_file, sess_last, panel_channel_cleared_once, setup_pc,
          to_delete, channel_messages, clears, panels_deleted, surah_names,
          surah_options, info_result>>

\* ------------------------------------------------------------ the catalog
\* surah numbers of the audio files of a reciter, in file order
AudioFiles(r) ==
    IF r = "A" THEN [i \in 1..NumSurahs |-> i]
    ELSE [i \in 1..(NumSurahs - 1) |-> i]

TrackCount(r) == Len(AudioFiles(r))

ValidIndex(i, r) == i >= 0 /\ i <= TrackCount(r) - 1

\* index of surah s in the reciter's file list, NoIndex when absent
IndexForSurah(r, s) ==
    IF \E i \in 1..TrackCount(r) : AudioFiles(r)[i] = s
    THEN (CHOOSE i \in 1..TrackCount(r) : AudioFiles(r)[i] = s) - 1
    ELSE NoIndex

\* surah number at index i of reciter r, 0 when i is no offset of the list
SurahForIndex(r, i) ==
    IF ValidIndex(i, r) THEN AudioFiles(r)[i + 1] ELSE 0

\* index after a successful reciter switch: same surah, else 0
ReciterSwitchIndexRaw(old, new, i) == i
ReciterSwitchIndex(old, new, i) ==
    IF i = NoIndex THEN NoIndex
    ELSE IF IndexForSurah(new, SurahForIndex(old, i)) # NoIndex
         THEN IndexForSurah(new, SurahForIndex(old, i))
         ELSE 0

\* --------------------------------------------------------------- streams
NoStream == [st |-> "none", idx |-> NoIndex]
StoppedStream == [st |-> "stopped", idx |-> NoIndex]
StreamIds == {0} \cup Procs

\* a stream that begins at the position the panel showed last
NewStreamShown == [st |-> "running", idx |-> panel.index]

\* play_quran_files started now: it plays from the stored position
NewStream == [st |-> "running", idx |-> current_index]

\* ------------------------------------------------------------ the panel
\* the state update_panel_status gathers for the embed
StatusOf(i, r, l, sh) == [index |-> i, reciter |-> r, loop |-> l, shuffle |-> sh]

Status == StatusOf(current_index, current_reciter, loop_enabled,
                   shuffle_enabled)

\* update_panel_status: the embed shows the gathered state when the edit of
\* the panel message succeeds; a failed edit is logged and leaves the embed
PanelAfter(st, ok) == IF ok THEN st ELSE panel

\* ------------------------------------------------- voice-channel sessions
SessUsers == {1, 2}
MaxTotal == 3
MaxDuration == 2

\* session_data.get('total_time', 0.0) finds no key
NoTotal == -1

\* an entry of user_sessions, by the keys it holds; in = the user is a key
Session(j, c, n, t) == [in |-> TRUE, joined_at |-> j, channel_name |-> c,
                       username |-> n, total_time |-> t]
NoSession == [in |-> FALSE, joined_at |-> FALSE, channel_name |-> FALSE,
              username |-> FALSE, total_time |-> NoTotal]
NoOperation == [op |-> "none", raised |-> FALSE, embed |-> FALSE]
Operation(op, raised) == [op |-> op, raised |-> raised, embed |-> ~raised]

\* ------------------------------------------------------- get_surah_info
\* None, and the SurahInfo stored under key n, which is written n
None == 0
SurahNumbers == 0..(NumSurahs + 1)
Databases == SUBSET (1..NumSurahs)

InfoResult(n, db, raised, value, after) ==
    [called |-> TRUE, surah_number |-> n, database |-> db, raised |-> raised,
     value |-> value, database_after |-> after]
NoCall == [called |-> FALSE, surah_number |-> 0, database |-> {},
           raised |-> "none", value |-> None, database_after |-> {}]

\* ------------------------------------------------ options of the surah select
Max(a, b) == IF a > b THEN a ELSE b
Min(a, b) == IF a < b THEN a ELSE b

\* position a slice bound i takes in a list of len items
SliceBound(i, len) == IF i < 0 THEN Max(len + i, 0) ELSE Min(i, len)

\* number of items of list[start:end]
SliceLen(len, start, end) ==
    Max(0, SliceBound(end, len) - SliceBound(start, len))

\* the option values built from a list of len names for a page:
\* enumerate(page_surahs, start_index + 1) over list[start_index:end_index]
OptionValuesFromStart(page, len) ==
    [k \in 1..SliceLen(len, page * SurahsPerPage,
                       page * SurahsPerPage + SurahsPerPage) |->
        page * SurahsPerPage + k - 1]
OptionValues(page, len) ==
    [k \in 1..SliceLen(len, page * SurahsPerPage,
                       page * SurahsPerPage + SurahsPerPage) |->
        page * SurahsPerPage + k]

\* SurahSelect.update_options: the names of get_surah_names(), or the
\* hard-coded list of all surahs when there are none
update_options(page, names) ==
    IF names = 0 THEN OptionValues(page, NumSurahs)
    ELSE OptionValues(page, names)

\* ------------------------------------------------------- the panel channel
\* calls of setup(bot) in one process; the panel message of setup s is s
MaxSetups == 2
Setups == 1..MaxSetups

\* a message the channel held before the bot started
OldMessage == 0

Init ==
    /\ current_index \in (NoIndex..(NumSurahs - 1))
    /\ current_reciter = "A"
    /\ loop_enabled = FALSE
    /\ loop_owner = NoUser
    /\ shuffle_enabled = FALSE
    /\ shuffle_owner = NoUser
    /\ last_activity = NoActivity
    /\ is_streaming = TRUE
    /\ voice_connected = TRUE
    /\ pc = [p \in Procs |-> "idle"]
    /\ kind = [p \in Procs |-> "next"]
    /\ bot_state_before = [p \in Procs |-> NoIndex]
    /\ found_surah = [p \in Procs |-> NoSurah]
    /\ target = [p \in Procs |-> NoTarget]
    /\ sent = [p \in Procs |-> {}]
    /\ stream = [s \in StreamIds |->
                    IF s = 0 THEN [st |-> "running", idx |-> current_index]
                    ELSE NoStream]
    /\ panel = Status
    /\ current_page = 0
    /\ last_response = "none"
    /\ nav_log = << >>
    /\ rapid = TRUE
    /\ expected_index = current_index
    /\ expected_reciter = current_reciter
    /\ loop_presses = << >>
    /\ verse_pc = "idle"
    /\ verse_in = NoVerseInput
    /\ verse_saved = FALSE
    /\ verse_delivered = FALSE
    /\ verse_responses = << >>
    /\ verse_runs = 0
    /\ now = 0
    /\ timer_start = 0
    /\ surah_file = CompleteFile
    /\ load_result = NotLoaded
    /\ reply_cb = "previous_button"
    /\ reply_pc = "idle"
    /\ response_done = FALSE
    /\ reply_calls = << >>
    /\ reply_runs = 0
    /\ user_sessions = [u \in SessUsers |-> NoSession]
    /\ sessions_file = [u \in SessUsers |-> NoSession]
    /\ sess_last = NoOperation
    /\ panel_channel_cleared_once = FALSE
    /\ setup_pc = [s \in Setups |-> "idle"]
    /\ to_delete = [s \in Setups |-> {}]
    /\ channel_messages = {OldMessage}
    /\ clears = 0
    /\ panels_deleted = {}
    /\ surah_names = NumSurahs
    /\ surah_options = update_options(0, NumSurahs)
    /\ info_result = NoCall

\* ------------------------------------------------------- helper operators
Activity(a, u) == [action |-> a, user |-> u]

InFlight(q) == pc[q] \in {"defer", "sleep"}

AcceptedProcs == {nav_log[i] : i \in 1..Len(nav_log)}

\* bookkeeping of an accepted navigation request (not program state): the
\* request is applied to the result of the requests accepted before it
Accept(p, ei, er) ==
    /\ nav_log' = Append(nav_log, p)
    /\ rapid' = (rapid /\ \A q \in AcceptedProcs : InFlight(q))
    /\ expected_index' = ei
    /\ expected_reciter' = er
    /\ UNCHANGED <<loop_presses, others>>

\* the callback returns
Return(p) ==
    /\ pc' = [pc EXCEPT ![p] = "done"]
    /\ target' = [target EXCEPT ![p] = NoTarget]
    /\ found_surah' = [found_surah EXCEPT ![p] = NoSurah]
    /\ UNCHANGED <<kind, bot_state_before>>

\* the callback answers with msg and returns
Finish(p, msg) ==
    /\ Return(p)
    /\ sent' = [sent EXCEPT ![p] = @ \cup {msg}]

\* the callback returns before it has changed anything
Refuse(p, msg) ==
    /\ pc' = [pc EXCEPT ![p] = "done"]
    /\ sent' = [sent EXCEPT ![p] = @ \cup {msg}]
    /\ bot_state_before' = [bot_state_before EXCEPT ![p] = NoIndex]
    /\ found_surah' = [found_surah EXCEPT ![p] = NoSurah]
    /\ UNCHANGED <<kind, target>>
    /\ UNCHANGED <<pstate, is_streaming, voice_connected, stream, panel,
                   ghost, others>>

\* the callback has written its state and awaits interaction.response.defer()
ToDeferExclusive(p, t) ==
    /\ \A q \in Procs : ~InFlight(q)
    /\ pc' = [pc EXCEPT ![p] = "defer"]
    /\ target' = [target EXCEPT ![p] = t]
    /\ bot_state_before' = [bot_state_before EXCEPT ![p] = NoIndex]
    /\ found_surah' = [found_surah EXCEPT ![p] = NoSurah]
    /\ UNCHANGED <<kind, sent>>
ToDefer(p, t) ==
    /\ pc' = [pc EXCEPT ![p] = "defer"]
    /\ target' = [target EXCEPT ![p] = t]
    /\ bot_state_before' = [bot_state_before EXCEPT ![p] = NoIndex]
    /\ found_surah' = [found_surah EXCEPT ![p] = NoSurah]
    /\ UNCHANGED <<kind, sent>>

\* is_in_voice_channel(interaction) is false: ephemeral denial, return
AccessDenied(p) == Refuse(p, "denied")

\* ------------------------------------------------ arrival of interactions
\* log_button_interaction / log_select_interaction: the wrapper reads the
\* bot state, then awaits the Discord logger before it calls the callback
Wrapper(p, k) ==
    /\ pc[p] = "idle"
    /\ \A q \in Procs : q < p => pc[q] # "idle"
    /\ pc' = [pc EXCEPT ![p] = "arrived"]
    /\ kind' = [kind EXCEPT ![p] = k]
    /\ bot_state_before' = [bot_state_before EXCEPT ![p] = current_index]
    /\ UNCHANGED <<pstate, is_streaming, voice_connected, found_surah,
                   target, sent, stream, panel, ghost, others>>

Arrive(p, k) ==
    /\ p <= MaxPresses
    /\ Wrapper(p, k)


ArriveRapid(p) ==
    /\ p <= RapidPresses
    /\ Wrapper(p, "next")

\* state_manager.set_current_song_index: a plain store of the index it is
\* given, with no wrap-around and no range check
set_current_song_index(i) == i

\* ------------------------------------------------------------ Next button
\* index the Next button reads before it adds one
SkipReadStale(p) == bot_state_before[p]
SkipRead(p) == current_index

SkipTargetSame(p) == SkipRead(p)
SkipTarget(p) == SkipRead(p) + 1

skip_button(p) ==
    /\ pc[p] = "arrived"
    /\ kind[p] = "next"
    /\ \/ AccessDenied(p)
       \/ /\ SkipRead(p) = NoIndex
          /\ Refuse(p, "not_playing")
       \/ /\ SkipRead(p) # NoIndex
          /\ current_index' = set_current_song_index(SkipTarget(p))
          /\ last_activity' = Activity("Skipped to Next Surah", UserOf(p))
          /\ ToDefer(p, Target(SkipTarget(p), current_reciter))
          /\ Accept(p, expected_index + 1, expected_reciter)
          /\ UNCHANGED <<current_reciter, loop_enabled, loop_owner,
                         shuffle_enabled, shuffle_owner, is_streaming,
                         voice_connected, stream, panel>>

\* -------------------------------------------------------- Previous button
PreviousAtBoundaryStrict(i) == i = NoIndex \/ i < 0
PreviousAtBoundary(i) == i = NoIndex \/ i <= 0

previous_button(p) ==
    /\ pc[p] = "arrived"
    /\ kind[p] = "prev"
    /\ \/ AccessDenied(p)
       \/ /\ PreviousAtBoundary(current_index)
          /\ Refuse(p, "not_playing")
       \/ /\ ~PreviousAtBoundary(current_index)
          /\ current_index' = set_current_song_index(current_index - 1)
          /\ last_activity' = Activity("Went to Previous Surah", UserOf(p))
          /\ ToDefer(p, Target(current_index - 1, current_reciter))
          /\ Accept(p, expected_index - 1, expected_reciter)
          /\ UNCHANGED <<current_reciter, loop_enabled, loop_owner,
                         shuffle_enabled, shuffle_owner, is_streaming,
                         voice_connected, stream, panel>>

\* ------------------------------------------------------------ surah select
SurahSelect_callback(p, s) ==
    /\ pc[p] = "arrived"
    /\ kind[p] = "surah"
    /\ \/ AccessDenied(p)
       \/ /\ current_index' = set_current_song_index(s - 1)
          /\ ToDefer(p, Target(s - 1, current_reciter))
          /\ Accept(p, s - 1, expected_reciter)
          /\ UNCHANGED <<current_reciter, loop_enabled, loop_owner,
                         shuffle_enabled, shuffle_owner, last_activity,
                         is_streaming, voice_connected, stream, panel>>

\* ---------------------------------------------------------- reciter select
\* bot.set_current_reciter: accepts the reciters of the catalog
set_current_reciterAny(r) == TRUE
set_current_reciter(r) == r \in Reciters

ReciterSelect_callback(p, r) ==
    /\ pc[p] = "arrived"
    /\ kind[p] = "reciter"
    /\ \/ AccessDenied(p)
       \/ /\ ~set_current_reciter(r)
          /\ Refuse(p, "failed")
       \/ /\ set_current_reciter(r)
          /\ current_reciter' = r
          /\ current_index' = ReciterSwitchIndex(current_reciter, r, current_index)
          /\ last_activity' = Activity("Switched to reciter", UserOf(p))
          /\ ToDefer(p, Target(ReciterSwitchIndex(current_reciter, r, current_index), r))
          /\ Accept(p, ReciterSwitchIndex(expected_reciter, r, expected_index), r)
          /\ UNCHANGED <<loop_enabled, loop_owner, shuffle_enabled,
                         shuffle_owner, is_streaming, voice_connected,
                         stream, panel>>

\* ------------------------------------------------------------ the search
\* if 1 <= surah_number <= 114
SurahNumberInRangeAny(n) == TRUE
SurahNumberInRange(n) == 1 <= n /\ n <= NumSurahs

\* SearchModal.on_submit with a number typed in: a number in range opens a
\* SearchResultView for that surah; any other number matches no surah name
\* either and is answered with "Surah Not Found"
SearchModal_on_submit(p, n) ==
    /\ pc[p] = "idle"
    /\ \A q \in Procs : q < p => pc[q] # "idle"
    /\ kind' = [kind EXCEPT ![p] = "search"]
    /\ IF SurahNumberInRange(n)
       THEN /\ pc' = [pc EXCEPT ![p] = "arrived"]
            /\ found_surah' = [found_surah EXCEPT ![p] = n]
            /\ UNCHANGED sent
       ELSE /\ pc' = [pc EXCEPT ![p] = "done"]
            /\ sent' = [sent EXCEPT ![p] = @ \cup {"not_found"}]
            /\ UNCHANGED found_surah
    /\ UNCHANGED <<pstate, is_streaming, voice_connected, bot_state_before,
                   target, stream, panel, ghost, others>>

\* SearchResultView.play_surah: Play This Surah
play_surah(p) ==
    /\ pc[p] = "arrived"
    /\ kind[p] = "search"
    /\ \/ AccessDenied(p)
       \/ /\ current_index' = set_current_song_index(found_surah[p] - 1)
          /\ ToDefer(p, Target(found_surah[p] - 1, current_reciter))
          /\ Accept(p, found_surah[p] - 1, expected_reciter)
          /\ UNCHANGED <<current_reciter, loop_enabled, loop_owner,
                         shuffle_enabled, shuffle_owner, last_activity,
                         is_streaming, voice_connected, stream, panel>>

\* ------------------------------------------------------- restart_playback
\* defer() has returned; restart_playback raises the stop signal and sleeps
restart_stop(p) ==
    /\ pc[p] = "defer"
    /\ is_streaming' = FALSE
    /\ pc' = [pc EXCEPT ![p] = "sleep"]
    /\ UNCHANGED <<pstate, voice_connected, kind, bot_state_before,
                   found_surah, target, sent, stream, panel, ghost, others>>

\* asyncio.sleep(2) is over and a voice client is connected: the stream task
\* is created and the callback awaits the panel refresh
restart_startReset(p) ==
    /\ pc[p] = "sleep"
    /\ voice_connected
    /\ is_streaming' = TRUE
    /\ stream' = [stream EXCEPT ![p] = NewStream]
    /\ \E ok \in BOOLEAN : panel' = PanelAfter(Status, ok)
    /\ last_activity' = IF kind[p] = "search"
                        THEN Activity("Switched to Surah", UserOf(p))
                        ELSE last_activity
    /\ pc' = [pc EXCEPT ![p] = "update"]
    /\ current_index' = 0
    /\ UNCHANGED <<current_reciter, loop_enabled, loop_owner,
                   shuffle_enabled, shuffle_owner, voice_connected, kind,
                   bot_state_before, found_surah, target, sent, ghost, others>>
restart_startSilent(p) ==
    /\ pc[p] = "sleep"
    /\ voice_connected
    /\ is_streaming' = is_streaming
    /\ stream' = [stream EXCEPT ![p] = NewStream]
    /\ \E ok \in BOOLEAN : panel' = PanelAfter(Status, ok)
    /\ last_activity' = IF kind[p] = "search"
                        THEN Activity("Switched to Surah", UserOf(p))
                        ELSE last_activity
    /\ pc' = [pc EXCEPT ![p] = "update"]
    /\ UNCHANGED <<current_index, current_reciter, loop_enabled, loop_owner,
                   shuffle_enabled, shuffle_owner, voice_connected, kind,
                   bot_state_before, found_surah, target, sent, ghost, others>>
restart_start(p) ==
    /\ pc[p] = "sleep"
    /\ voice_connected
    /\ is_streaming' = TRUE
    /\ stream' = [stream EXCEPT ![p] = NewStream]
    /\ \E ok \in BOOLEAN : panel' = PanelAfter(Status, ok)
    /\ last_activity' = IF kind[p] = "search"
                        THEN Activity("Switched to Surah", UserOf(p))
                        ELSE last_activity
    /\ pc' = [pc EXCEPT ![p] = "update"]
    /\ UNCHANGED <<current_index, current_reciter, loop_enabled, loop_owner,
                   shuffle_enabled, shuffle_owner, voice_connected, kind,
                   bot_state_before, found_surah, target, sent, ghost, others>>

\* asyncio.sleep(2) is over and no voice client is connected: the restart
\* raises, the handler of restart_playback sends the error through followup
restart_abortReset(p) ==
    /\ pc[p] = "sleep"
    /\ ~voice_connected
    /\ pc' = [pc EXCEPT ![p] = "errsend"]
    /\ current_index' = 0
    /\ UNCHANGED <<current_reciter, loop_enabled, loop_owner, shuffle_enabled,
                   shuffle_owner, last_activity, is_streaming, voice_connected,
                   kind, bot_state_before, found_surah, target, sent, stream,
                   panel,
                   ghost, others>>
restart_abort(p) ==
    /\ pc[p] = "sleep"
    /\ ~voice_connected
    /\ pc' = [pc EXCEPT ![p] = "errsend"]
    /\ UNCHANGED <<pstate, is_streaming, voice_connected, kind,
                   bot_state_before, found_surah, target, sent, stream, panel,
                   ghost, others>>

\* what the callback does once restart_playback has returned, up to its next
\* await: the surah select records the last activity
AfterRestartActivity(p) ==
    IF kind[p] = "surah" THEN Activity("Switched to Surah", UserOf(p))
    ELSE last_activity

\* the error message of the aborted restart has been sent
error_sent(p) ==
    /\ pc[p] = "errsend"
    /\ sent' = [sent EXCEPT ![p] = @ \cup {"restart_error"}]
    /\ last_activity' = AfterRestartActivity(p)
    /\ pc' = [pc EXCEPT ![p] = IF kind[p] = "reciter" THEN "update"
                               ELSE "confirm"]
    /\ IF kind[p] = "reciter"
       THEN \E ok \in BOOLEAN : panel' = PanelAfter(Status, ok)
       ELSE UNCHANGED panel
    /\ UNCHANGED <<current_index, current_reciter, loop_enabled, loop_owner,
                   shuffle_enabled, shuffle_owner, is_streaming,
                   voice_connected, kind, bot_state_before, found_surah,
                   target, stream, ghost, others>>

\* the edit of the panel message has returned
panel_updated(p) ==
    /\ pc[p] = "update"
    /\ IF kind[p] = "reciter"
       THEN /\ Return(p)
            /\ UNCHANGED <<last_activity, sent>>
       ELSE /\ pc' = [pc EXCEPT ![p] = "confirm"]
            /\ last_activity' = AfterRestartActivity(p)
            /\ UNCHANGED <<kind, bot_state_before, found_surah, target,
                           sent>>
    /\ UNCHANGED <<current_index, current_reciter, loop_enabled, loop_owner,
                   shuffle_enabled, shuffle_owner, is_streaming,
                   voice_connected, stream, panel, ghost, others>>

\* the confirmation ("Playing next surah", "Now playing Surah ...") is sent
\* after restart_playback has returned
confirmation_sent(p) ==
    /\ pc[p] = "confirm"
    /\ Finish(p, "confirm")
    /\ UNCHANGED <<pstate, is_streaming, voice_connected, stream, panel,
                   ghost, others>>

\* ------------------------------------------------------- Loop and Shuffle
\* a button of the panel pressed from outside the voice channel: the
\* ephemeral "Access Denied" answer, and the callback returns
LocalDeniedPage ==
    /\ last_response' = "denied"
    /\ current_page' = 0
    /\ UNCHANGED <<pstate, is_streaming, voice_connected, procvars, stream,
                   panel, ghost, versevars, mappervars, extras>>
LocalDenied ==
    /\ last_response' = "denied"
    /\ UNCHANGED <<pstate, is_streaming, voice_connected, procvars, stream,
                   panel, ghost, current_page, versevars, mappervars, extras>>

LoopUserAfterKeep(enabled, u) == u
LoopUserAfter(enabled, u) == IF enabled THEN u ELSE NoUser

\* self.bot.loop_enabled = not getattr(self.bot, 'loop_enabled', False)
LoopToggleStuck(enabled) == TRUE
LoopToggle(enabled) == ~enabled

loop_button(u) ==
    \/ LocalDenied
    \/ /\ loop_enabled' = LoopToggle(loop_enabled)
       /\ loop_owner' = LoopUserAfter(LoopToggle(loop_enabled), u)
       /\ last_activity' = Activity(IF LoopToggle(loop_enabled)
                                    THEN "Enabled Loop"
                                    ELSE "Disabled Loop", u)
       /\ loop_presses' = IF loop_enabled THEN Append(loop_presses, u)
                          ELSE <<u>>
       /\ \E ok \in BOOLEAN :
             panel' = PanelAfter(StatusOf(current_index, current_reciter,
                                          LoopToggle(loop_enabled),
                                          shuffle_enabled), ok)
       /\ UNCHANGED <<current_index, current_reciter, shuffle_enabled,
                      shuffle_owner, is_streaming, voice_connected, procvars,
                      stream, navghost, others>>

ShuffleUserAfter(enabled, u) == IF enabled THEN u ELSE NoUser

shuffle_button(u) ==
    \/ LocalDenied
    \/ /\ shuffle_enabled' = ~shuffle_enabled
       /\ shuffle_owner' = ShuffleUserAfter(~shuffle_enabled, u)
       /\ last_activity' = Activity(IF ~shuffle_enabled
                                    THEN "Enabled Shuffle"
                                    ELSE "Disabled Shuffle", u)
       /\ \E ok \in BOOLEAN :
             panel' = PanelAfter(StatusOf(current_index, current_reciter,
                                          loop_enabled, ~shuffle_enabled), ok)
       /\ UNCHANGED <<current_index, current_reciter, loop_enabled,
                      loop_owner, is_streaming, voice_connected, procvars,
                      stream, ghost, others>>

\* -------------------------------------------- pages of the surah select
\* max_pages = (len(surah_names) + items_per_page - 1) // items_per_page
max_pages(names) == (names + SurahsPerPage - 1) \div SurahsPerPage

MaxPages == max_pages(NumSurahs)

\* a control that stays local to the panel answers the interaction; a
\* requester outside the voice channel gets the denial instead
LocalAnswer(page, answer) ==
    \/ LocalDenied
    \/ /\ current_page' = page
       /\ surah_options' = update_options(page, surah_names)
       /\ last_response' = answer
       /\ UNCHANGED <<pstate, is_streaming, voice_connected, procvars,
                      stream, panel, ghost, versevars, mappervars,
                      surah_names, besides_page>>

surah_prev_page == LocalAnswer(Max(0, current_page - 1), "edit")

surah_next_page ==
    LocalAnswer(Min(current_page + 1, max_pages(surah_names) - 1), "edit")

\* search_button: opens the search modal, for any requester
search_buttonRestart ==
    /\ last_response' = "modal"
    /\ is_streaming' = FALSE
    /\ UNCHANGED <<pstate, voice_connected, procvars, stream, panel, ghost,
                   current_page, versevars, mappervars, extras>>
search_button ==
    /\ last_response' = "modal"
    /\ UNCHANGED <<pstate, is_streaming, voice_connected, procvars, stream,
                   panel, ghost, current_page, versevars, mappervars, extras>>

\* SearchResultView.show_info: the view of slot p shows its surah
show_info(p) ==
    /\ found_surah[p] # NoSurah
    /\ last_response' = "info"
    /\ UNCHANGED <<pstate, is_streaming, voice_connected, procvars, stream,
                   panel, ghost, current_page, versevars, mappervars, extras>>

\* ------------------------------------------------------ periodic refresh
\* _periodic_update: every 20 seconds the task calls update_panel_status
update_panel_statusTouch(ok) ==
    /\ panel' = PanelAfter(Status, ok)
    /\ last_activity' = NoActivity
    /\ UNCHANGED <<current_index, current_reciter, loop_enabled, loop_owner,
                   shuffle_enabled, shuffle_owner, is_streaming,
                   voice_connected, procvars, stream, ghost, others>>
update_panel_status(ok) ==
    /\ panel' = PanelAfter(Status, ok)
    /\ UNCHANGED <<pstate, is_streaming, voice_connected, procvars, stream,
                   ghost, others>>

periodic_update == \E ok \in BOOLEAN : update_panel_status(ok)

\* ------------------------------------------------------------ environment
\* a running play_quran_files task sees is_streaming = False and ends
stream_stops(s) ==
    /\ stream[s].st = "running"
    /\ ~is_streaming
    /\ stream' = [stream EXCEPT ![s] = StoppedStream]
    /\ UNCHANGED <<pstate, is_streaming, voice_connected, procvars, panel,
                   ghost, others>>

\* the voice client drops or comes back
voice_change ==
    /\ voice_connected' = ~voice_connected
    /\ UNCHANGED <<pstate, is_streaming, procvars, stream, panel, ghost, others>>

\* the process ends and a new one starts: the state store gives back the
\* index and the reciter it was given; loop_enabled and shuffle_enabled are
\* attributes of the bot object, which setup reads with getattr(bot, ...,
\* False); what the configuration keeps of the owners and of the last
\* activity is not decided here; the coroutines of the old process are gone
process_restart ==
    /\ UNCHANGED <<current_index, current_reciter>>
    /\ loop_enabled' = FALSE
    /\ shuffle_enabled' = FALSE
    /\ loop_owner' \in {loop_owner, NoUser}
    /\ shuffle_owner' \in {shuffle_owner, NoUser}
    /\ last_activity' \in {last_activity, NoActivity}
    /\ is_streaming' = TRUE
    /\ voice_connected' = TRUE
    /\ pc' = [p \in Procs |-> IF pc[p] = "idle" THEN "idle" ELSE "done"]
    /\ bot_state_before' = [p \in Procs |-> NoIndex]
    /\ found_surah' = [p \in Procs |-> NoSurah]
    /\ target' = [p \in Procs |-> NoTarget]
    /\ stream' = [s \in StreamIds |->
                     IF s = 0 THEN [st |-> "running", idx |-> current_index]
                     ELSE NoStream]
    /\ panel' = StatusOf(current_index, current_reciter, FALSE, FALSE)
    /\ loop_presses' = << >>
    /\ current_page' = 0
    /\ surah_options' = update_options(0, surah_names)
    /\ last_response' = "none"
    /\ UNCHANGED <<kind, sent, navghost, versevars, mappervars, surah_names,
                   besides_page>>

\* steps of a restart and of the environment, shared by all specifications
RestartSteps ==
    \/ \E p \in Procs : restart_stop(p)
    \/ \E p \in Procs : restart_start(p)
    \/ \E p \in Procs : restart_abort(p)
    \/ \E p \in Procs : error_sent(p)
    \/ \E p \in Procs : panel_updated(p)
    \/ \E p \in Procs : confirmation_sent(p)
    \/ \E s \in StreamIds : stream_stops(s)
    \/ voice_change

\* a search submitted by one of the MaxPresses interactions
Submit(p, n) ==
    /\ p <= MaxPresses
    /\ SearchModal_on_submit(p, n)

Next ==
    \/ \E p \in Procs, k \in WrappedKinds : Arrive(p, k)
    \/ \E p \in Procs, n \in SearchInputs : Submit(p, n)
    \/ \E p \in Procs : skip_button(p)
    \/ \E p \in Procs : previous_button(p)
    \/ \E p \in Procs, s \in 1..NumSurahs : SurahSelect_callback(p, s)
    \/ \E p \in Procs, r \in ReciterChoices : ReciterSelect_callback(p, r)
    \/ \E p \in Procs : play_surah(p)
    \/ RestartSteps

\* navigation: MaxPresses interactions of any kind, in any interleaving
Spec == Init /\ [][Next]_vars

\* Next presses only, RapidPresses of them
NextRapid ==
    \/ \E p \in Procs : ArriveRapid(p)
    \/ \E p \in Procs : skip_button(p)
    \/ RestartSteps

SpecRapid == Init /\ [][NextRapid]_vars

\* Loop and Shuffle presses in any number, around one navigation interaction
ArriveOne(p, k) ==
    /\ \A q \in Procs : pc[q] = "idle"
    /\ Wrapper(p, k)

SubmitOne(p, n) ==
    /\ \A q \in Procs : pc[q] = "idle"
    /\ SearchModal_on_submit(p, n)

NextToggle ==
    \/ \E p \in Procs, k \in WrappedKinds : ArriveOne(p, k)
    \/ \E p \in Procs, n \in SearchInputs : SubmitOne(p, n)
    \/ \E p \in Procs : skip_button(p)
    \/ \E p \in Procs : previous_button(p)
    \/ \E p \in Procs, s \in 1..NumSurahs : SurahSelect_callback(p, s)
    \/ \E p \in Procs, r \in ReciterChoices : ReciterSelect_callback(p, r)
    \/ \E p \in Procs : play_surah(p)
    \/ \E u \in Users : loop_button(u)
    \/ \E u \in Users : shuffle_button(u)
    \/ RestartSteps

SpecToggle == Init /\ [][NextToggle]_vars

\* the controls that stay local to the panel, around one search
LocalControls ==
    \/ \E u \in Users : loop_button(u)
    \/ \E u \in Users : shuffle_button(u)
    \/ surah_prev_page
    \/ surah_next_page
    \/ search_button
    \/ \E p \in Procs : show_info(p)

NextPanel ==
    \/ \E p \in Procs, n \in SearchInputs : SubmitOne(p, n)
    \/ \E p \in Procs : play_surah(p)
    \/ LocalControls
    \/ RestartSteps

SpecPanel == Init /\ [][NextPanel]_vars

\* every control that changes state, around one navigation interaction,
\* with a voice client that stays connected
NextDenied ==
    \/ \E p \in Procs, k \in WrappedKinds : ArriveOne(p, k)
    \/ \E p \in Procs, n \in SearchInputs : SubmitOne(p, n)
    \/ \E p \in Procs : skip_button(p)
    \/ \E p \in Procs : previous_button(p)
    \/ \E p \in Procs, s \in 1..NumSurahs : SurahSelect_callback(p, s)
    \/ \E p \in Procs, r \in ReciterChoices : ReciterSelect_callback(p, r)
    \/ \E p \in Procs : play_surah(p)
    \/ \E u \in Users : loop_button(u)
    \/ \E u \in Users : shuffle_button(u)
    \/ surah_prev_page
    \/ surah_next_page
    \/ \E p \in Procs : restart_stop(p)
    \/ \E p \in Procs : restart_start(p)
    \/ \E p \in Procs : panel_updated(p)
    \/ \E p \in Procs : confirmation_sent(p)
    \/ \E s \in StreamIds : stream_stops(s)

SpecDenied == Init /\ [][NextDenied]_vars

\* navigation by MaxPresses interactions that follow one another: an
\* interaction arrives when the callbacks of the earlier ones have returned
ArriveSeq(p, k) ==
    /\ \A q \in Procs : pc[q] \in {"idle", "done"}
    /\ Arrive(p, k)

SubmitSeq(p, n) ==
    /\ \A q \in Procs : pc[q] \in {"idle", "done"}
    /\ Submit(p, n)

NextSeq ==
    \/ \E p \in Procs, k \in WrappedKinds : ArriveSeq(p, k)
    \/ \E p \in Procs, n \in SearchInputs : SubmitSeq(p, n)
    \/ \E p \in Procs : skip_button(p)
    \/ \E p \in Procs : previous_button(p)
    \/ \E p \in Procs, s \in 1..NumSurahs : SurahSelect_callback(p, s)
    \/ \E p \in Procs, r \in ReciterChoices : ReciterSelect_callback(p, r)
    \/ \E p \in Procs : play_surah(p)
    \/ RestartSteps

SpecSeq == Init /\ [][NextSeq]_vars

\* navigation as in SpecSeq, with the periodic refresh of the panel
NextStatus ==
    \/ NextSeq
    \/ periodic_update

SpecStatus == Init /\ [][NextStatus]_vars

\* the controls of SpecToggle, with restarts of the process
NextReload ==
    \/ NextToggle
    \/ process_restart

SpecReload == Init /\ [][NextReload]_vars

\* navigation by MaxPresses interactions in any interleaving, with a voice
\* client that stays connected; the event loop resumes every coroutine
\* whose await is over, and a stream task that was told to stop stops
NextLive ==
    \/ \E p \in Procs, k \in WrappedKinds : Arrive(p, k)
    \/ \E p \in Procs, n \in SearchInputs : Submit(p, n)
    \/ \E p \in Procs : skip_button(p)
    \/ \E p \in Procs : previous_button(p)
    \/ \E p \in Procs, s \in 1..NumSurahs : SurahSelect_callback(p, s)
    \/ \E p \in Procs, r \in ReciterChoices : ReciterSelect_callback(p, r)
    \/ \E p \in Procs : play_surah(p)
    \/ \E p \in Procs : restart_stop(p)
    \/ \E p \in Procs : restart_start(p)
    \/ \E p \in Procs : panel_updated(p)
    \/ \E p \in Procs : confirmation_sent(p)
    \/ \E s \in StreamIds : stream_stops(s)

Fairness ==
    /\ \A p \in Procs : WF_vars(restart_stop(p))
    /\ \A p \in Procs : WF_vars(restart_start(p))
    /\ \A p \in Procs : WF_vars(panel_updated(p))
    /\ \A p \in Procs : WF_vars(confirmation_sent(p))

SpecLive == Init /\ [][NextLive]_vars /\ Fairness

\* ------------------------------------------------------ the surah mapper
\* tree_log.log_error_with_traceback(message, exception=None, level): with
\* an exception argument it reads exception.__traceback__, which a str
\* does not have
log_error_with_tracebackStrict(exception) == "AttributeError"
log_error_with_traceback(exception) ==
    IF exception = "str" THEN "AttributeError" ELSE "none"

\* tree_log.log_critical_error(message, exception=None): a call with more
\* than two positional arguments is a TypeError
log_critical_error(nargs, exception) ==
    IF nargs > 2 THEN "TypeError" ELSE log_error_with_traceback(exception)

\* tree_log.log_warning_with_context(message, context=None)
log_warning_with_context(nargs) ==
    IF nargs > 2 THEN "TypeError" ELSE "none"

\* the loop over data.items(): a complete entry is stored; for an entry
\* with missing fields the call of log_warning_with_context, and for a bad
\* revelation_type the constructor, raises inside the inner try, whose
\* handler logs the exception and goes on to the next entry
EntryStored(e) == e = "valid"

EntryRaises(e) ==
    IF e = "valid" THEN "none"
    ELSE IF e = "missing_fields" THEN log_warning_with_context(3)
    ELSE "ValueError"

\* except (ValueError, KeyError, TypeError)
EntryEscapes(e) ==
    EntryRaises(e) \notin {"none", "ValueError", "KeyError", "TypeError"}

\* the body of the outer try: what it returns, or the exception that
\* leaves it
TryBody(f) ==
    IF f.kind = "missing"
    THEN Loaded(log_critical_error(3, "str"), {})
    ELSE IF f.kind = "invalid_json" THEN Loaded("JSONDecodeError", {})
    ELSE IF f.kind = "permission_denied" THEN Loaded("PermissionError", {})
    ELSE IF f.kind = "not_object" THEN Loaded("AttributeError", {})
    ELSE LET database == {i \in 1..Len(f.entries) : EntryStored(f.entries[i])}
         IN  IF \E i \in 1..Len(f.entries) : EntryEscapes(f.entries[i])
             THEN Loaded(EntryRaises(f.entries[
                      CHOOSE i \in 1..Len(f.entries) :
                          EntryEscapes(f.entries[i])]), {})
             ELSE IF Cardinality(database) = NumSurahs
                  THEN Loaded("none", database)
                  ELSE Loaded(log_warning_with_context(3), database)

\* the except clauses of the outer try, by the exception they catch: each
\* logs and returns {}, unless its logging call raises
HandlerLog(exc) ==
    IF exc = "JSONDecodeError" THEN log_error_with_traceback("str")
    ELSE IF exc = "FileNotFoundError" THEN log_critical_error(2, "str")
    ELSE IF exc = "PermissionError" THEN log_error_with_traceback("exception")
    ELSE log_critical_error(3, "str")

load_surah_database_of(f) ==
    IF TryBody(f).raised = "none" THEN TryBody(f)
    ELSE Loaded(HandlerLog(TryBody(f).raised), {})

\* surahs.json is replaced on disk
surahs_json_changes(f) ==
    /\ surah_file' = f
    /\ surah_file # f
    /\ UNCHANGED <<load_result, playback, versevars, extras>>

\* SURAH_DATABASE = load_surah_database(), run when the module is imported
load_surah_database ==
    /\ load_result' = load_surah_database_of(surah_file)
    /\ UNCHANGED <<surah_file, playback, versevars, extras>>

NextMapper ==
    \/ \E f \in SurahFiles : surahs_json_changes(f)
    \/ load_surah_database

SpecMapper == Init /\ [][NextMapper]_vars

\* validate_surah_number: 1 <= surah_number <= 114
validate_surah_number(n) == 1 <= n /\ n <= NumSurahs

\* SURAH_DATABASE.get(surah_number)
DatabaseGet(db, n) == IF n \in db THEN n ELSE None

\* the try block of get_surah_info: the exception that leaves it, or
\* "none" and the value it returns
InfoBody(n, db) ==
    IF ~validate_surah_number(n)
    THEN [raised |-> log_warning_with_context(2), value |-> None]
    ELSE IF db = {}
    THEN [raised |-> log_critical_error(2, "str"), value |-> None]
    ELSE [raised |-> "none", value |-> DatabaseGet(db, n)]

\* get_surah_info with SURAH_DATABASE = db: except Exception logs the
\* exception it caught and returns None
get_surah_info_of(n, db) ==
    IF InfoBody(n, db).raised = "none"
    THEN InfoResult(n, db, "none", InfoBody(n, db).value, db)
    ELSE InfoResult(n, db, log_error_with_traceback("exception"), None, db)

get_surah_info(n, db) ==
    /\ info_result' = get_surah_info_of(n, db)
    /\ UNCHANGED <<program, besides_info>>

NextInfo == \E n \in SurahNumbers, db \in Databases : get_surah_info(n, db)

SpecInfo == Init /\ [][NextInfo]_vars

\* ------------------------------------------------------ the /verse command
VerseAnswer(via, msg) == [via |-> via, msg |-> msg]

\* /verse is invoked by user u; what the command will find is fixed here
verse_invoke(u, dev, mgr, pool, got, chan) ==
    /\ verse_pc \in {"idle", "done"}
    /\ verse_runs < MaxVerseRuns
    /\ verse_runs' = verse_runs + 1
    /\ verse_in' = [user |-> u, DEVELOPER_ID |-> dev, manager |-> mgr,
                    verse_pool |-> pool, verse |-> got, channel |-> chan,
                    at |-> now]
    /\ verse_pc' = "checks"
    /\ verse_saved' = FALSE
    /\ verse_delivered' = FALSE
    /\ verse_responses' = << >>
    /\ UNCHANGED <<now, timer_start, playback, mappervars, extras>>

\* if interaction.user.id != DEVELOPER_ID
IsDeveloperAny(u, dev) == TRUE
IsDeveloper(u, dev) == u = dev

\* an ephemeral error embed through interaction.response, then return
verse_errorSaved(msg) ==
    /\ verse_responses' = Append(verse_responses,
                                 VerseAnswer("response", msg))
    /\ verse_pc' = "done"
    /\ verse_saved' = TRUE
    /\ UNCHANGED verse_delivered
verse_error(msg) ==
    /\ verse_responses' = Append(verse_responses,
                                 VerseAnswer("response", msg))
    /\ verse_pc' = "done"
    /\ UNCHANGED <<verse_saved, verse_delivered>>

\* verse_slash_command up to its confirmation: the manager, DEVELOPER_ID,
\* the user, the verse pool, the verse and the channel are checked in this
\* order; then save_state() is called, and an exception it raises is logged
verse_checks ==
    /\ verse_pc = "checks"
    /\ IF ~verse_in.manager THEN verse_error("system_error")
       ELSE IF verse_in.DEVELOPER_ID = 0 THEN verse_error("config_error")
       ELSE IF ~IsDeveloper(verse_in.user, verse_in.DEVELOPER_ID)
            THEN verse_error("denied")
       ELSE IF ~verse_in.verse_pool THEN verse_error("not_configured")
       ELSE IF ~verse_in.verse THEN verse_error("no_verses")
       ELSE IF verse_in.channel = "unset" THEN verse_error("channel_unset")
       ELSE IF verse_in.channel = "missing"
            THEN verse_error("channel_missing")
       ELSE /\ \E raised \in BOOLEAN : verse_saved' = ~raised
            /\ verse_pc' = "confirm"
            /\ UNCHANGED <<verse_responses, verse_delivered>>
    /\ UNCHANGED <<verse_in, verse_runs, now, timer_start, playback, mappervars, extras>>

\* the "Verse Sent Successfully" embed, with the time of the next automatic
\* verse computed from the current time, answers the interaction
verse_confirm ==
    /\ verse_pc = "confirm"
    /\ verse_responses' = Append(verse_responses,
                                 VerseAnswer("response", "success"))
    /\ verse_pc' = "send"
    /\ UNCHANGED <<verse_in, verse_saved, verse_delivered, verse_runs, now,
                   timer_start, playback, mappervars, extras>>

\* channel.send(embed=embed): the verse reaches the channel, or the send
\* raises and "Failed to send verse embed" goes out through followup
verse_send ==
    /\ verse_pc = "send"
    /\ \/ /\ verse_delivered' = TRUE
          /\ UNCHANGED verse_responses
       \/ /\ verse_responses' = Append(verse_responses,
                                       VerseAnswer("followup", "send_failed"))
          /\ UNCHANGED verse_delivered
    /\ verse_pc' = "done"
    /\ UNCHANGED <<verse_in, verse_saved, verse_runs, now, timer_start,
                   playback, mappervars, extras>>

\* an hour passes
tick ==
    /\ now < MaxClock
    /\ now' = now + 1
    /\ UNCHANGED <<verse_pc, verse_in, verse_saved, verse_delivered,
                   verse_responses, verse_runs, timer_start, playback, mappervars, extras>>

\* the automatic verse: sent when the interval has run out, which starts
\* the next interval
auto_verse ==
    /\ now - timer_start >= VerseInterval
    /\ timer_start' = now
    /\ UNCHANGED <<verse_pc, verse_in, verse_saved, verse_delivered,
                   verse_responses, verse_runs, now, playback, mappervars, extras>>

NextVerse ==
    \/ \E u \in Users, dev \in DeveloperIds, mgr \in BOOLEAN,
          pool \in BOOLEAN, got \in BOOLEAN, chan \in Channels :
            verse_invoke(u, dev, mgr, pool, got, chan)
    \/ verse_checks
    \/ verse_confirm
    \/ verse_send
    \/ tick
    \/ auto_verse

SpecVerse == Init /\ [][NextVerse]_vars

\* ============================================ answers to an interaction
\* the callbacks of the panel and of the search views, and /verse
Callbacks == {"SurahSelect.callback", "ReciterSelect.callback",
              "surah_prev_page", "surah_next_page", "previous_button",
              "skip_button", "loop_button", "shuffle_button", "search_button",
              "on_submit", "play_surah", "show_info", "verse_slash_command"}

\* callbacks that send through followup after their initial response
SendsFollowup == {"SurahSelect.callback", "ReciterSelect.callback",
                  "previous_button", "skip_button", "loop_button",
                  "shuffle_button", "play_surah", "verse_slash_command"}

\* callbacks whose except blocks test interaction.response.is_done()
ChecksIsDone == {"SurahSelect.callback", "ReciterSelect.callback",
                 "verse_slash_command"}

MaxReplyRuns == 2

ReplyCall(via, done) == [via |-> via, done |-> done]

\* Discord delivers an interaction to callback cb
reply_invoke(cb) ==
    /\ reply_pc \in {"idle", "done"}
    /\ reply_runs < MaxReplyRuns
    /\ reply_runs' = reply_runs + 1
    /\ reply_cb' = cb
    /\ reply_pc' = "try"
    /\ response_done' = FALSE
    /\ reply_calls' = << >>
    /\ UNCHANGED <<program, besides_reply>>

\* the body of the try block up to its initial response: a denial, a
\* warning or the only answer and return, or defer / edit_message and on to
\* the followup; the body or the response may raise instead
reply_first ==
    /\ reply_pc = "try"
    /\ \/ /\ reply_pc' = "except"
          /\ UNCHANGED <<response_done, reply_calls>>
       \/ /\ reply_calls' = Append(reply_calls,
                                   ReplyCall("response", response_done))
          /\ \/ /\ reply_pc' = "except"
                /\ UNCHANGED response_done
             \/ /\ response_done' = TRUE
                /\ reply_pc' = "done"
             \/ /\ reply_cb \in SendsFollowup
                /\ response_done' = TRUE
                /\ reply_pc' = "followup"
    /\ UNCHANGED <<reply_cb, reply_runs, program, besides_reply>>

\* the restart, the embeds and interaction.followup.send after the initial
\* response; any of them may raise
reply_followup ==
    /\ reply_pc = "followup"
    /\ \/ /\ reply_pc' = "except"
          /\ UNCHANGED reply_calls
       \/ /\ reply_calls' = Append(reply_calls,
                                   ReplyCall("followup", response_done))
          /\ reply_pc' \in {"done", "except"}
    /\ UNCHANGED <<reply_cb, response_done, reply_runs, program,
                   besides_reply>>

\* the except block sends its error embed: through followup when it tests
\* is_done() and the response is done, through response.send_message
\* otherwise, which raises InteractionResponded on a response that is done
reply_except ==
    /\ reply_pc = "except"
    /\ IF reply_cb \in ChecksIsDone /\ response_done
       THEN /\ reply_calls' = Append(reply_calls,
                                     ReplyCall("followup", response_done))
            /\ UNCHANGED response_done
       ELSE /\ reply_calls' = Append(reply_calls,
                                     ReplyCall("response", response_done))
            /\ response_done' \in {response_done, TRUE}
    /\ reply_pc' = "done"
    /\ UNCHANGED <<reply_cb, reply_runs, program, besides_reply>>

NextReply ==
    \/ \E cb \in Callbacks : reply_invoke(cb)
    \/ reply_first
    \/ reply_followup
    \/ reply_except

SpecReply == Init /\ [][NextReply]_vars

\* ============================================== DiscordEmbedLogger sessions
\* session_data.get('total_time', 0.0)
TotalOf(s) == IF s.in /\ s.total_time # NoTotal THEN s.total_time ELSE 0

\* _save_sessions builds the serializable dict before it opens the file:
\* it reads joined_at, channel_name and username of every entry, and a
\* missing key raises KeyError, which is logged and leaves the file
Serializable(m) ==
    \A u \in SessUsers :
        m[u].in => (m[u].joined_at /\ m[u].channel_name /\ m[u].username)

Written(m) ==
    [u \in SessUsers |->
        IF m[u].in THEN Session(TRUE, TRUE, TRUE, TotalOf(m[u]))
        ELSE NoSession]

save_sessions(m) == IF Serializable(m) THEN Written(m) ELSE sessions_file

\* _load_sessions: every entry of the file becomes an entry with joined_at,
\* channel_name, username and total_time
load_sessions(f) ==
    [u \in SessUsers |->
        IF f[u].in THEN Session(TRUE, TRUE, TRUE, TotalOf(f[u]))
        ELSE NoSession]

\* user_sessions becomes m and _save_sessions() is called
Store(m) ==
    /\ user_sessions' = m
    /\ sessions_file' = save_sessions(m)

\* log_user_joined_vc: a new entry that keeps the total_time of the old one
log_user_joined_vc(u) ==
    /\ Store([user_sessions EXCEPT
                 ![u] = Session(TRUE, TRUE, TRUE, TotalOf(@))])
    /\ sess_last' = Operation("joined", FALSE)
    /\ UNCHANGED <<program, besides_sess>>

\* log_user_left_vc after a session of d seconds: session_data['joined_at']
\* is read without a test; the entry is replaced by one that holds
\* total_time, username and last_seen
log_user_left_vc(u, d) ==
    /\ TotalOf(user_sessions[u]) + d <= MaxTotal
    /\ IF ~user_sessions[u].in
       THEN /\ sess_last' = Operation("left", FALSE)
            /\ UNCHANGED <<user_sessions, sessions_file>>
       ELSE IF ~user_sessions[u].joined_at
       THEN /\ sess_last' = Operation("left", TRUE)
            /\ UNCHANGED <<user_sessions, sessions_file>>
       ELSE /\ Store([user_sessions EXCEPT
                         ![u] = Session(FALSE, FALSE, TRUE, TotalOf(@) + d)])
            /\ sess_last' = Operation("left", FALSE)
    /\ UNCHANGED <<program, besides_sess>>

\* start_user_session: the entry is replaced by one that holds joined_at
start_user_session(u) ==
    Store([user_sessions EXCEPT ![u] = Session(TRUE, FALSE, FALSE, NoTotal)])

\* end_user_session: the entry is deleted
end_user_session(u) ==
    IF user_sessions[u].in
    THEN Store([user_sessions EXCEPT ![u] = NoSession])
    ELSE UNCHANGED <<user_sessions, sessions_file>>

\* log_user_button_click, called by the logging wrapper for every button:
\* a user in a voice channel without a running session gets a new one, a
\* user in no voice channel has the entry ended
log_user_button_click(u, in_voice) ==
    /\ IF in_voice
       THEN IF user_sessions[u].in /\ user_sessions[u].joined_at
            THEN UNCHANGED <<user_sessions, sessions_file>>
            ELSE start_user_session(u)
       ELSE end_user_session(u)
    /\ sess_last' = Operation("button", FALSE)
    /\ UNCHANGED <<program, besides_sess>>

\* initialize_existing_users at start-up, members being in the voice
\* channel: a new entry for an unknown member, joined_at and username
\* updated in the entry of a known one
initialize_existing_users(members) ==
    /\ Store([u \in SessUsers |->
                IF u \notin members THEN user_sessions[u]
                ELSE IF ~user_sessions[u].in THEN Session(TRUE, TRUE, TRUE, 0)
                ELSE [user_sessions[u] EXCEPT !.joined_at = TRUE,
                                              !.username = TRUE]])
    /\ sess_last' = Operation("initialize", FALSE)
    /\ UNCHANGED <<program, besides_sess>>

\* the bot starts again: DiscordEmbedLogger.__init__ loads the file
DiscordEmbedLogger_init ==
    /\ user_sessions' = load_sessions(sessions_file)
    /\ sess_last' = Operation("load", FALSE)
    /\ UNCHANGED <<sessions_file, program, besides_sess>>

NextSess ==
    \/ \E u \in SessUsers : log_user_joined_vc(u)
    \/ \E u \in SessUsers, d \in 1..MaxDuration : log_user_left_vc(u, d)
    \/ \E u \in SessUsers, in_voice \in BOOLEAN :
          log_user_button_click(u, in_voice)
    \/ \E members \in SUBSET SessUsers : initialize_existing_users(members)
    \/ DiscordEmbedLogger_init

SpecSess == Init /\ [][NextSess]_vars

\* ===================================================== setup of the panel
\* setup(bot): asyncio.create_task(delayed_create_panel())
setup(s) ==
    /\ setup_pc[s] = "idle"
    /\ \A r \in Setups : r < s => setup_pc[r] # "idle"
    /\ setup_pc' = [setup_pc EXCEPT ![s] = "delayed"]
    /\ UNCHANGED <<panel_channel_cleared_once, to_delete, channel_messages,
                   clears, panels_deleted, program, besides_setup>>

\* create_panel after the delay: the channel is looked up and the flag is
\* tested; when it is False the clear begins with the history of the channel
create_panel(s) ==
    /\ setup_pc[s] = "delayed"
    /\ \/ /\ setup_pc' = [setup_pc EXCEPT ![s] = "done"]
          /\ UNCHANGED <<to_delete, clears>>
       \/ /\ ~panel_channel_cleared_once
          /\ setup_pc' = [setup_pc EXCEPT ![s] = "clearing"]
          /\ to_delete' = [to_delete EXCEPT ![s] = channel_messages]
          /\ clears' = clears + 1
       \/ /\ panel_channel_cleared_once
          /\ setup_pc' = [setup_pc EXCEPT ![s] = "send"]
          /\ UNCHANGED <<to_delete, clears>>
    /\ UNCHANGED <<panel_channel_cleared_once, channel_messages,
                   panels_deleted, program, besides_setup>>

\* await message.delete() for the next message of the history; a delete
\* that raises is printed and the loop continues
message_delete(s, m) ==
    /\ setup_pc[s] = "clearing"
    /\ m \in to_delete[s]
    /\ to_delete' = [to_delete EXCEPT ![s] = @ \ {m}]
    /\ \/ /\ channel_messages' = channel_messages \ {m}
          /\ panels_deleted' = IF m \in Setups /\ m \in channel_messages
                               THEN panels_deleted \cup {m}
                               ELSE panels_deleted
       \/ UNCHANGED <<channel_messages, panels_deleted>>
    /\ UNCHANGED <<panel_channel_cleared_once, setup_pc, clears, program,
                   besides_setup>>

\* the loop over the history has ended: panel_channel_cleared_once = True
clear_done(s) ==
    /\ setup_pc[s] = "clearing"
    /\ to_delete[s] = {}
    /\ panel_channel_cleared_once' = TRUE
    /\ setup_pc' = [setup_pc EXCEPT ![s] = "send"]
    /\ UNCHANGED <<to_delete, channel_messages, clears, panels_deleted,
                   program, besides_setup>>

\* channel.history raises: "Failed to clear channel" is logged, the flag
\* keeps its value and create_panel goes on
clear_fails(s) ==
    /\ setup_pc[s] = "clearing"
    /\ setup_pc' = [setup_pc EXCEPT ![s] = "send"]
    /\ to_delete' = [to_delete EXCEPT ![s] = {}]
    /\ UNCHANGED <<panel_channel_cleared_once, channel_messages, clears,
                   panels_deleted, program, besides_setup>>

\* channel.send(embed=embed, view=view): the panel message, unless the send
\* raises
panel_send(s) ==
    /\ setup_pc[s] = "send"
    /\ setup_pc' = [setup_pc EXCEPT ![s] = "done"]
    /\ channel_messages' \in {channel_messages, channel_messages \cup {s}}
    /\ UNCHANGED <<panel_channel_cleared_once, to_delete, clears,
                   panels_deleted, program, besides_setup>>

NextSetup ==
    \/ \E s \in Setups : setup(s)
    \/ \E s \in Setups : create_panel(s)
    \/ \E s \in Setups, m \in {OldMessage} \cup Setups : message_delete(s, m)
    \/ \E s \in Setups : clear_done(s)
    \/ \E s \in Setups : clear_fails(s)
    \/ \E s \in Setups : panel_send(s)

SpecSetup == Init /\ [][NextSetup]_vars

\* ================================================= pages of the panel
\* the bot starts with a surah-name list of the given length: the view is
\* built with current_page = 0 and SurahSelect(bot) builds its options
surah_names_loaded(names) ==
    /\ surah_names' = names
    /\ current_page' = 0
    /\ surah_options' = update_options(0, names)
    /\ last_response' = "none"
    /\ UNCHANGED <<pstate, is_streaming, voice_connected, procvars, stream,
                   panel, ghost, versevars, mappervars, besides_page>>

NextPages ==
    \/ \E names \in 0..NumSurahs : surah_names_loaded(names)
    \/ surah_prev_page
    \/ surah_next_page
    \/ \E u \in Users : loop_button(u)
    \/ \E u \in Users : shuffle_button(u)

SpecPages == Init /\ [][NextPages]_vars

\* ================================================================ claims
LastAccepted(p) == Len(nav_log) > 0 /\ nav_log[Len(nav_log)] = p

\* the restart of p is between its stop signal and its start or abort
RestartActive(p) == pc[p] = "sleep"

\* the callback of p runs its first stretch in this step and is not denied
Handles(p, k) ==
    /\ pc[p] = "arrived"
    /\ kind[p] = k
    /\ pc'[p] # "arrived"
    /\ "denied" \notin sent'[p]

\* C1: three Next presses, each accepted while the restarts of all earlier
\* ones were still in flight: the restarts of the first two never start a
\* stream, and only the third one's stream runs, at the third target index.
C1_OnlyThirdRestartCommits ==
    (Len(nav_log) >= 3 /\ rapid) =>
        /\ stream[nav_log[1]].st = "none"
        /\ stream[nav_log[2]].st = "none"
        /\ stream[nav_log[3]].st = "running" =>
               stream[nav_log[3]].idx = target[nav_log[3]].idx

\* C2: at most one restart sequence is active at any time.
C2_AtMostOneActiveRestart ==
    Cardinality({p \in Procs : RestartActive(p)}) <= 1

\* C3: Next at the last index of the track list leaves the index alone and
\* starts no restart when loop is disabled, and wraps the index to 0 when
\* loop is enabled.
C3_NextAtLastIndex ==
    [][\A p \in Procs :
         (Handles(p, "next") /\ current_index = TrackCount(current_reciter) - 1)
         => IF loop_enabled
            THEN current_index' = 0
            ELSE current_index' = current_index /\ pc'[p] = "done"]_vars

\* C4: Previous at index 0 changes nothing: index, is_streaming, streams and
\* last activity keep their values, the callback reports the boundary and
\* returns without a restart.
C4_PreviousAtZeroNoOp ==
    [][\A p \in Procs :
         (Handles(p, "prev") /\ current_index = 0)
         => /\ current_index' = 0
            /\ is_streaming' = is_streaming
            /\ stream' = stream
            /\ last_activity' = last_activity
            /\ pc'[p] = "done"
            /\ "not_playing" \in sent'[p]]_vars

C4_Witness ==
    \E p \in Procs :
        /\ kind[p] = "prev"
        /\ pc[p] = "done"
        /\ "not_playing" \in sent[p]
        /\ current_index = 0
        /\ nav_log = << >>

\* C5: the current index, when not null, is an offset into the track list of
\* the current reciter.
C5_IndexValid ==
    current_index # NoIndex => ValidIndex(current_index, current_reciter)

\* C6: the loop owner is set exactly when loop is enabled, and the shuffle
\* owner exactly when shuffle is enabled.
C6_OwnerIffEnabled ==
    /\ (loop_owner # NoUser) <=> loop_enabled
    /\ (shuffle_owner # NoUser) <=> shuffle_enabled

C6_Witness ==
    /\ ~loop_enabled
    /\ loop_owner = NoUser
    /\ last_activity = Activity("Disabled Loop", 2)
    /\ shuffle_enabled
    /\ shuffle_owner = 1

\* C7: the stored index and reciter are those obtained by applying the
\* accepted navigation requests one after the other, in the order they were
\* accepted: no request is lost, whatever the restarts are doing.
C7_NoLostUpdate ==
    /\ current_index = expected_index
    /\ current_reciter = expected_reciter

C7_Witness ==
    /\ Len(nav_log) = 2
    /\ \A p \in {1, 2} : kind[p] = "next" /\ RestartActive(p)
    /\ rapid

\* C8: a restart that found no voice client leaves the position its
\* operation wrote: while no later request has been accepted, the current
\* index and reciter are the requested target.
Aborted(p) == pc[p] = "errsend" \/ "restart_error" \in sent[p]

C8_AbortKeepsTarget ==
    \A p \in Procs :
        (Aborted(p) /\ pc[p] # "done" /\ LastAccepted(p))
        => /\ current_index = target[p].idx
           /\ current_reciter = target[p].rec

C8_Witness ==
    \E p \in Procs :
        /\ Aborted(p)
        /\ pc[p] = "update"
        /\ LastAccepted(p)
        /\ kind[p] = "reciter"
        /\ target[p] = Target(1, "B")
        /\ current_index = 1
        /\ current_reciter = "B"

\* C9: a restart that finds no voice client aborts with the cursor stopped:
\* is_streaming is False after the abort, the interaction has created no
\* stream task, and the error is handled inside the callback.
C9_AbortLeavesStopped ==
    [][\A p \in Procs :
         (pc[p] = "sleep" /\ pc'[p] # "sleep" /\ ~voice_connected)
         => /\ pc'[p] = "errsend"
            /\ is_streaming' = FALSE
            /\ stream'[p].st = "none"]_vars

\* C10: an operation whose restart aborted for want of a voice client sends
\* no success confirmation.
C10_NoConfirmationAfterAbort ==
    \A p \in Procs : "restart_error" \in sent[p] => "confirm" \notin sent[p]

\* C11: two Loop presses starting from loop disabled, by whichever users,
\* end with loop disabled and the loop owner cleared, and no Loop press
\* touches is_streaming, a stream task or a restart in progress.
C11_LoopTwiceRestores ==
    [][loop_presses' # loop_presses
         => /\ is_streaming' = is_streaming
            /\ stream' = stream
            /\ pc' = pc
            /\ Len(loop_presses') = 2
                  => (~loop_enabled' /\ loop_owner' = NoUser)]_vars

C11_Witness ==
    /\ loop_presses = <<2, 1>>
    /\ ~loop_enabled
    /\ loop_owner = NoUser
    /\ is_streaming
    /\ stream[0].st = "running"

\* C12: a surah jump with a number outside 1..NumSurahs is rejected: a search
\* for it opens no result view, changes no index and starts no restart, and
\* every surah jump that is accepted targets a surah of 1..NumSurahs.
C12_OutOfRangeRejected ==
    \A p \in Procs :
        /\ found_surah[p] # NoSurah => found_surah[p] \in 1..NumSurahs
        /\ (kind[p] \in {"surah", "search"} /\ target[p] # NoTarget)
             => (target[p].idx + 1) \in 1..NumSurahs
        /\ "not_found" \in sent[p]
             => /\ pc[p] = "done"
                /\ p \notin AcceptedProcs
                /\ stream[p].st = "none"

C12_Witness ==
    \E p \in Procs :
        /\ "not_found" \in sent[p]
        /\ nav_log = << >>
        /\ is_streaming
        /\ stream[0] = [st |-> "running", idx |-> current_index]

\* C13: a reciter select that set_current_reciter rejects has no side effect:
\* reciter, index, last activity, is_streaming and the stream tasks keep
\* their values and no restart starts; a select that is not rejected makes
\* a reciter of the catalog the current one.
C13_UnknownReciterNoEffect ==
    [][\A p \in Procs :
         Handles(p, "reciter")
         => \/ /\ pc'[p] = "defer"
               /\ current_reciter' \in Reciters
            \/ /\ pc'[p] = "done"
               /\ "failed" \in sent'[p]
               /\ current_reciter' = current_reciter
               /\ current_index' = current_index
               /\ last_activity' = last_activity
               /\ is_streaming' = is_streaming
               /\ stream' = stream
               /\ nav_log' = nav_log]_vars

C13_Witness ==
    \E p \in Procs :
        /\ kind[p] = "reciter"
        /\ pc[p] = "done"
        /\ "failed" \in sent[p]
        /\ nav_log = << >>
        /\ last_activity = NoActivity
        /\ current_reciter = "A"
        /\ is_streaming
        /\ stream[0] = [st |-> "running", idx |-> current_index]

\* C14: a successful reciter switch keeps the surah: the index it stores is
\* the offset, in the new reciter's list, of the surah that was current
\* under the old reciter, and index 0 when the new reciter lacks that surah.
HasSurah(r, s) == \E i \in 1..TrackCount(r) : AudioFiles(r)[i] = s

RestartSettled(p) == pc[p] \in {"update", "confirm"}

C15_StatusShowsSelection ==
    \A p \in Procs :
        ( /\ kind[p] = "surah"
          /\ RestartSettled(p)
          /\ LastAccepted(p)
          /\ ValidIndex(target[p].idx, target[p].rec) )
        => /\ Status.index = target[p].idx
           /\ Status.reciter = target[p].rec

C15_Witness ==
    /\ nav_log = <<1, 2>>
    /\ kind[2] = "surah"
    /\ pc[2] = "confirm"
    /\ "restart_error" \notin sent[2]
    /\ target[2] = Target(1, "B")
    /\ Status.index = 1
    /\ Status.reciter = "B"
    /\ panel = Status

\* C16: a restart of the process followed by a reload reproduces the playback
\* state: index, reciter, loop flag, loop owner, shuffle flag and shuffle
\* owner have the values they had before the restart.
C16_ReloadReproducesState ==
    [][process_restart
         => /\ current_index' = current_index
            /\ current_reciter' = current_reciter
            /\ loop_enabled' = loop_enabled
            /\ loop_owner' = loop_owner
            /\ shuffle_enabled' = shuffle_enabled
            /\ shuffle_owner' = shuffle_owner]_vars

\* C17: a refresh of the status panel, successful or failed, mutates no
\* playback state: index, reciter, loop and shuffle flags and owners,
\* is_streaming and last activity keep their values, no stream task starts
\* or stops and no interaction moves.
C17_RefreshReadOnly ==
    [][periodic_update
         => /\ current_index' = current_index
            /\ current_reciter' = current_reciter
            /\ loop_enabled' = loop_enabled
            /\ loop_owner' = loop_owner
            /\ shuffle_enabled' = shuffle_enabled
            /\ shuffle_owner' = shuffle_owner
            /\ is_streaming' = is_streaming
            /\ last_activity' = last_activity
            /\ stream' = stream
            /\ pc' = pc]_vars

\* the panel shows an index written by a Next press whose restart has not
\* started yet: only the periodic refresh can have put it there
C17_Witness ==
    /\ nav_log = <<1>>
    /\ kind[1] = "next"
    /\ pc[1] = "defer"
    /\ panel.index = current_index
    /\ stream[0].idx # current_index
    /\ last_activity = Activity("Skipped to Next Surah", 1)
    /\ is_streaming

\* C18: a navigation request that arrives while an earlier restart is in
\* flight is accepted without waiting for it: its callback can run at once,
\* writes its index or reciter, and the earlier restart is still in flight
\* after the write.
Accepts(p) ==
    /\ \/ skip_button(p)
       \/ previous_button(p)
       \/ \E s \in 1..NumSurahs : SurahSelect_callback(p, s)
       \/ \E r \in Reciters : ReciterSelect_callback(p, r)
       \/ play_surah(p)
    /\ pc'[p] = "defer"
    /\ current_index' = target'[p].idx
    /\ current_reciter' = target'[p].rec
    /\ \A q \in Procs \ {p} : pc'[q] = pc[q]

C18_AcceptedDuringRestart ==
    \A p \in Procs :
        ( /\ pc[p] = "arrived"
          /\ \E q \in Procs \ {p} : InFlight(q)
          /\ kind[p] = "next" => current_index # NoIndex
          /\ kind[p] = "prev" => ~PreviousAtBoundary(current_index) )
        => ENABLED Accepts(p)

C18_Witness ==
    /\ nav_log = <<1, 2>>
    /\ kind[1] = "next"
    /\ kind[2] = "next"
    /\ pc[1] = "sleep"
    /\ pc[2] = "defer"
    /\ stream[0].st = "running"
    /\ current_index = stream[0].idx + 2
    /\ target[2].idx = current_index
    /\ stream[1].st = "none"

\* C19: Loop, Shuffle, the page buttons, the Search button and Show Info
\* trigger no restart: they leave the current index, the current reciter
\* and is_streaming alone, start and stop no stream task and move no
\* navigation callback.
C19_LocalControlsNoRestart ==
    [][LocalControls
         => /\ current_index' = current_index
            /\ current_reciter' = current_reciter
            /\ is_streaming' = is_streaming
            /\ stream' = stream
            /\ pc' = pc
            /\ target' = target]_vars

C19_Witness ==
    /\ loop_enabled
    /\ shuffle_enabled
    /\ current_page = MaxPages - 1
    /\ current_page > 0
    /\ last_response = "info"
    /\ nav_log = << >>
    /\ is_streaming
    /\ stream[0] = [st |-> "running", idx |-> current_index]

\* C20: a jump to surah s through the surah select puts the current index
\* on the offset surah s has in the track list of the current reciter, and
\* a Next that follows the jump puts it on the offset of surah s + 1, for
\* every s below the number of surahs, whatever the index was before.
LastAcceptedIsJump ==
    /\ nav_log # << >>
    /\ kind[nav_log[Len(nav_log)]] = "surah"

DeniedStep ==
    \/ \E p \in Procs : pc[p] = "arrived" /\ AccessDenied(p)
    \/ LocalDenied

C21_DeniedChangesNothing ==
    [][DeniedStep
         => /\ current_index' = current_index
            /\ current_reciter' = current_reciter
            /\ loop_enabled' = loop_enabled
            /\ loop_owner' = loop_owner
            /\ shuffle_enabled' = shuffle_enabled
            /\ shuffle_owner' = shuffle_owner
            /\ current_page' = current_page
            /\ is_streaming' = is_streaming
            /\ last_activity' = last_activity
            /\ stream' = stream
            /\ target' = target
            /\ \A p \in Procs : pc'[p] \in {pc[p], "done"}]_vars

C21_Witness ==
    /\ kind[1] \in {"surah", "reciter", "prev", "next", "search"}
    /\ pc[1] = "done"
    /\ sent[1] = {"denied"}
    /\ last_response = "denied"
    /\ current_page = MaxPages - 1
    /\ current_page > 0
    /\ loop_enabled
    /\ nav_log = << >>
    /\ is_streaming
    /\ stream[0] = [st |-> "running", idx |-> current_index]

\* C22: /verse is admin-only: the verse reaches the daily-verse channel and
\* save_state is called only when the invoking user's id equals a non-zero
\* DEVELOPER_ID; any other user, and every user while DEVELOPER_ID is
\* unset, ends with one ephemeral error answer (the denial, the
\* configuration error, or the system error of an unavailable manager) and
\* nothing delivered or saved.
VerseAdmin ==
    /\ verse_in.DEVELOPER_ID # 0
    /\ verse_in.user = verse_in.DEVELOPER_ID

C23_VerseResetsTimer ==
    (verse_pc = "done" /\ verse_delivered) => timer_start >= verse_in.at

\* C24: load_surah_database never raises: for a missing surahs.json, invalid
\* JSON, an unreadable file or a file with fewer than NumSurahs valid
\* entries it returns a dictionary, empty or holding the valid entries.
C24_LoadNeverRaises ==
    load_result.called => load_result.raised = "none"

\* C25: at any time at most one stream task started by the control panel
\* is running: a restart starts its play_quran_files task only after the
\* stream that was running has stopped, in every interleaving of
\* overlapping restarts.
PanelStreamsRunning == {p \in Procs : stream[p].st = "running"}

C25_AtMostOnePanelStream == Cardinality(PanelStreamsRunning) <= 1

\* C26: with fair scheduling and a voice client that stays connected, every
\* restart reaches PLAYING, whatever other restarts overlap it: a restart
\* that has given the stop signal eventually has is_streaming = True with
\* its stream task started, and whenever no restart is between its stop
\* signal and its start, is_streaming is True and a stream task is running.
C26_RestartReachesPlaying ==
    /\ \A p \in Procs :
          (pc[p] = "sleep") ~> (is_streaming /\ stream[p].st = "running")
    /\ []((\A p \in Procs : pc[p] # "sleep")
            => (is_streaming /\ \E s \in StreamIds : stream[s].st = "running"))

C26_Witness ==
    /\ nav_log = <<1, 2>>
    /\ rapid
    /\ pc[1] = "done"
    /\ pc[2] = "done"
    /\ is_streaming
    /\ stream[1].st = "stopped"
    /\ stream[2].st = "running"

\* C27: a navigation operation writes its index or reciter before it asks
\* for the restart: when its restart gives the stop signal and when it
\* starts the new stream the write has been made, and the stream it starts
\* begins at the stored position, which is the target of the operation
\* itself or, when later operations were accepted meanwhile, the result of
\* the last of them; it is never a position from before the operation.
C27_WriteBeforeRestart ==
    [][\A p \in Procs :
          /\ restart_stop(p) => (p \in AcceptedProcs /\ target[p] # NoTarget)
          /\ restart_start(p) =>
                /\ p \in AcceptedProcs
                /\ target[p] # NoTarget
                /\ stream'[p].st = "running"
                /\ stream'[p].idx = expected_index
                /\ LastAccepted(p) => /\ stream'[p].idx = target[p].idx
                                      /\ current_reciter = target[p].rec]_vars

C27_Witness ==
    /\ nav_log = <<1, 2>>
    /\ pc[1] = "update"
    /\ pc[2] = "sleep"
    /\ stream[1].st = "running"
    /\ target[1].idx # target[2].idx
    /\ stream[1].idx = target[2].idx

\* C28: /verse keeps its documented order, the delivery of the verse first
\* and the update of the state after it: whenever save_state has been
\* carried out in a run, the verse of that run has been delivered to the
\* channel.
C28_SavedOnlyAfterDelivered == verse_saved => verse_delivered

\* C29: the administrator gets the "Verse Sent Successfully" confirmation
\* only for a verse that reached the channel: a run whose channel.send
\* failed has sent no success confirmation, and a finished run that sent
\* the confirmation has delivered the verse.
VerseMessages == {verse_responses[i].msg : i \in 1..Len(verse_responses)}

C29_SuccessOnlyIfDelivered ==
    /\ "send_failed" \in VerseMessages => "success" \notin VerseMessages
    /\ (verse_pc = "done" /\ "success" \in VerseMessages) => verse_delivered

\* C30: when the verse manager is unavailable, the verse pool is empty, no
\* verse is returned or the channel is unset or not found, the run makes no
\* save_state and no send to the channel, and it ends with exactly one
\* answer, an ephemeral error through the interaction's response; for the
\* administrator it is the error of the first of these checks that fails.
VerseUnavailable ==
    \/ ~verse_in.manager
    \/ ~verse_in.verse_pool
    \/ ~verse_in.verse
    \/ verse_in.channel \in {"unset", "missing"}

VerseErrors == {"system_error", "config_error", "denied", "not_configured",
                "no_verses", "channel_unset", "channel_missing"}

C30_UnavailableOneError ==
    (verse_pc # "idle" /\ VerseUnavailable) =>
        /\ ~verse_saved
        /\ ~verse_delivered
        /\ verse_pc \in {"checks", "done"}
        /\ verse_pc = "checks" => verse_responses = << >>
        /\ verse_pc = "done" =>
              /\ Len(verse_responses) = 1
              /\ verse_responses[1].via = "response"
              /\ verse_responses[1].msg \in VerseErrors
              /\ VerseAdmin =>
                    verse_responses[1].msg =
                       IF ~verse_in.manager THEN "system_error"
                       ELSE IF ~verse_in.verse_pool THEN "not_configured"
                       ELSE IF ~verse_in.verse THEN "no_verses"
                       ELSE IF verse_in.channel = "unset" THEN "channel_unset"
                       ELSE "channel_missing"

C30_Witness ==
    /\ verse_pc = "done"
    /\ verse_runs = 2
    /\ verse_in.user = 1
    /\ verse_in.DEVELOPER_ID = 1
    /\ verse_in.manager
    /\ verse_in.verse_pool
    /\ verse_in.verse
    /\ verse_in.channel = "missing"
    /\ verse_responses = <<VerseAnswer("response", "channel_missing")>>
    /\ ~verse_saved
    /\ ~verse_delivered

\* C31: a callback uses the initial response of its interaction at most
\* once: every send it makes after the interaction has been deferred or
\* answered, those of its except blocks included, goes through followup
\* and never through interaction.response.
C31_InitialResponseOnce ==
    \A i \in 1..Len(reply_calls) :
        reply_calls[i].via = "response" => ~reply_calls[i].done

\* C32: after every session-changing operation the sessions file holds
\* exactly the in-memory sessions: a fresh _load_sessions yields the same
\* users with the same total_time.
C32_FileHoldsSessions ==
    sess_last.op \in {"joined", "left", "button", "initialize"} =>
        \A u \in SessUsers :
            /\ load_sessions(sessions_file)[u].in = user_sessions[u].in
            /\ TotalOf(load_sessions(sessions_file)[u])
                  = TotalOf(user_sessions[u])

\* C33: the accumulated total_time of a user never decreases and is never
\* discarded, whatever join, leave, button and start-up events follow one
\* another.
C33_TotalTimeKept ==
    [][\A u \in SessUsers :
          TotalOf(user_sessions'[u]) >= TotalOf(user_sessions[u])]_vars

\* C34: log_user_left_vc never raises and always sends its embed, also for
\* a user whose entry holds no running session.
C34_LeftNeverRaises ==
    sess_last.op = "left" => (~sess_last.raised /\ sess_last.embed)

\* C35: however many setups of the control panel run in one process, one
\* after the other or overlapping, the panel channel is cleared at most
\* once, and no clear deletes a panel message that has been sent.
C35_ClearedAtMostOnce ==
    /\ clears <= 1
    /\ panels_deleted = {}

\* C36: after any presses of Previous Page and Next Page, current_page is
\* a page of the surah-name list, 0 .. max_pages - 1, for a list of any
\* length; for the empty list, which has no page, page 0 is taken to be
\* the page meant.
C36_PageInRange ==
    /\ current_page >= 0
    /\ current_page <= Max(0, max_pages(surah_names) - 1)

\* C37: on every page p of the panel the surah select offers exactly the
\* surah numbers SurahsPerPage * p + 1 .. min(SurahsPerPage * p +
\* SurahsPerPage, NumSurahs) as option values, in ascending order, when
\* get_surah_names() returns the names of all surahs or none, the fallback
\* list then taking its place; a list of fewer names offers the numbers up
\* to its length. Over the complete list each surah is on exactly one page,
\* no page holds more than SurahsPerPage options, and the dynamic list and
\* the fallback list give the same values.
PageValues(p, last) ==
    [k \in 1..(Min(SurahsPerPage * p + SurahsPerPage, last)
                 - SurahsPerPage * p) |-> SurahsPerPage * p + k]

OptionSet(p, names) ==
    {update_options(p, names)[k] : k \in 1..Len(update_options(p, names))}

C38_GetSurahInfo ==
    info_result.called =>
        /\ info_result.raised = "none"
        /\ info_result.value = None
              <=> \/ info_result.surah_number \notin 1..NumSurahs
                  \/ info_result.database = {}
                  \/ info_result.surah_number \notin info_result.database
        /\ info_result.value # None
              => info_result.value = info_result.surah_number
        /\ info_result.database_after = info_result.database

C38_Witness ==
    /\ info_result.called
    /\ info_result.database = {}
    /\ info_result.surah_number = 1
    /\ info_result.raised = "none"
    /\ info_result.value = None

====
